---------------------------- MODULE Spec2Model ----------------------------
(***************************************************************************)
(* Model of split_preserve (src/src/lib.rs): the SplitPreserveWS iterator, *)
(* which splits a string into alternating Whitespace / Other tokens, and   *)
(* its two adaptors map_words and map_whitespace.                          *)
(*                                                                         *)
(* A &str is modelled as the sequence of its chars, each char being its    *)
(* Unicode code point.  Offsets handed between str::find and str::split_at *)
(* are BYTE offsets into the UTF-8 encoding, so the model computes them    *)
(* from the encoded width of every char instead of using char indices.     *)
(***************************************************************************)
EXTENDS Integers, Sequences, FiniteSets

\* Longest input string, in chars.
MaxLen == 4

\* The chars inputs are drawn from: U+0020 SPACE (whitespace, 1 byte),
\* U+0061 'a' (other, 1 byte), U+00E9 e-acute (other, 2 bytes) and
\* U+3000 IDEOGRAPHIC SPACE (whitespace, 3 bytes).
Alphabet == {32, 97, 233, 12288}

\* The caller-supplied closures handed to map_words / map_whitespace.
Transforms == {"identity", "reverse", "space"}

RECURSIVE StringsUpTo(_)
StringsUpTo(n) ==
    IF n = 0 THEN {<<>>}
    ELSE LET shorter == StringsUpTo(n - 1)
         IN  shorter \cup {Append(s, c) : s \in {t \in shorter : Len(t) = n - 1}, c \in Alphabet}

Strings == StringsUpTo(MaxLen)

-----------------------------------------------------------------------------
(* Standard-library primitives the source calls.                           *)

\* char::is_whitespace: the Unicode White_Space property.
is_whitespace(c) ==
    \/ c \in 9..13
    \/ c \in {32, 133, 160, 5760}
    \/ c \in 8192..8202
    \/ c \in {8232, 8233, 8239, 8287, 12288}

\* char::len_utf8: bytes of the UTF-8 encoding of a code point.
len_utf8(c) ==
    IF c < 128 THEN 1
    ELSE IF c < 2048 THEN 2
    ELSE IF c < 65536 THEN 3
    ELSE 4

\* str::len: length in bytes.
RECURSIVE ByteLen(_)
ByteLen(s) == IF s = <<>> THEN 0 ELSE len_utf8(Head(s)) + ByteLen(Tail(s))

Min(S) == CHOOSE x \in S : \A y \in S : x <= y

\* Option<usize>
NoIndex == [found |-> FALSE, idx |-> 0]
SomeIndex(i) == [found |-> TRUE, idx |-> i]

\* The chars occurring in s (str::chars).
Chars(s) == {s[k] : k \in 1..Len(s)}

\* str::find(pred): byte offset of the first char satisfying pred, where the
\* closure pred is given as a function on the chars of s.
find(s, pred) ==
    LET hits == {k \in 1..Len(s) : pred[s[k]]}
    IN  IF hits = {} THEN NoIndex
        ELSE SomeIndex(ByteLen(SubSeq(s, 1, Min(hits) - 1)))

\* Variant of split_at that discards the char at the split point, the way
\* str::split_whitespace discards separators.
split_at_DropSeparator(s, mid) ==
    LET cuts == {k \in 0..Len(s) : ByteLen(SubSeq(s, 1, k)) = mid}
    IN  IF cuts = {} THEN [ok |-> FALSE, a |-> <<>>, b |-> <<>>]
        ELSE LET k == CHOOSE k \in cuts : TRUE
             IN  [ok |-> TRUE, a |-> SubSeq(s, 1, k), b |-> SubSeq(s, k + 2, Len(s))]

\* str::split_at(mid): panics unless mid is on a char boundary.
split_at(s, mid) ==
    LET cuts == {k \in 0..Len(s) : ByteLen(SubSeq(s, 1, k)) = mid}
    IN  IF cuts = {} THEN [ok |-> FALSE, a |-> <<>>, b |-> <<>>]
        ELSE LET k == CHOOSE k \in cuts : TRUE
             IN  [ok |-> TRUE, a |-> SubSeq(s, 1, k), b |-> SubSeq(s, k + 1, Len(s))]

RECURSIVE Reverse(_)
Reverse(s) == IF s = <<>> THEN <<>> ELSE Append(Reverse(Tail(s)), Head(s))

-----------------------------------------------------------------------------
(* Token<'a> and Option<Token<'a>>.                                        *)

Whitespace(s) == [tag |-> "Whitespace", text |-> s]
Other(s)      == [tag |-> "Other", text |-> s]
None          == [tag |-> "None", text |-> <<>>]
NoCall        == [tag |-> "NoCall", text |-> <<>>]
\* next() unwound instead of returning
Panic         == [tag |-> "Panic", text |-> <<>>]
OwnedString(s) == [tag |-> "String", text |-> s]

IsSome(o) == o.tag \in {"Whitespace", "Other"}

\* Variant of new without the is_empty test: "" becomes a pending Other("").
new_NoEmptyCheck(s) ==
    IF s # <<>> /\ is_whitespace(s[1]) THEN Whitespace(s) ELSE Other(s)

\* SplitPreserveWS::new
new(s) ==
    IF s = <<>> THEN None
    ELSE IF is_whitespace(s[1]) THEN Whitespace(s)
    ELSE Other(s)

\* Variant of the Whitespace-arm scan that returns the char index of the hit
\* instead of its byte offset.
FindNonWhitespace_CharIndex(s) ==
    LET hits == {k \in 1..Len(s) : ~is_whitespace(s[k])}
    IN  IF hits = {} THEN NoIndex ELSE SomeIndex(Min(hits) - 1)

\* s.find(|c: char| !c.is_whitespace()) in the Whitespace arm of next()
FindNonWhitespace(s) == find(s, [c \in Chars(s) |-> ~is_whitespace(c)])

\* Variant of the Other-arm scan that only recognises the ASCII space.
FindWhitespace_AsciiOnly(s) == find(s, [c \in Chars(s) |-> c = 32])

\* s.find(char::is_whitespace) in the Other arm of next()
FindWhitespace(s) == find(s, [c \in Chars(s) |-> is_whitespace(c)])

\* Outcome of one call of next(): the returned Option<Token>, the new
\* self.string, and whether split_at panicked.
Outcome(r, p, bad) == [ret |-> r, string |-> p, panicked |-> bad]

\* Variant of the Whitespace arm that tags the remainder Whitespace again.
WhitespaceArm_SameClass(s) ==
    LET i == FindNonWhitespace(s)
    IN  IF i.found
        THEN LET ab == split_at(s, i.idx)
             IN  IF ab.ok THEN Outcome(Whitespace(ab.a), Whitespace(ab.b), FALSE)
                 ELSE Outcome(Panic, None, TRUE)
        ELSE Outcome(Whitespace(s), None, FALSE)

\* Token::Whitespace(s) arm of next()
WhitespaceArm(s) ==
    LET i == FindNonWhitespace(s)
    IN  IF i.found
        THEN LET ab == split_at(s, i.idx)
             IN  IF ab.ok THEN Outcome(Whitespace(ab.a), Other(ab.b), FALSE)
                 ELSE Outcome(Panic, None, TRUE)
        ELSE Outcome(Whitespace(s), None, FALSE)

\* Variant of the Other arm that tags the remainder Other again.
OtherArm_SameClass(s) ==
    LET i == FindWhitespace(s)
    IN  IF i.found
        THEN LET ab == split_at(s, i.idx)
             IN  IF ab.ok THEN Outcome(Other(ab.a), Other(ab.b), FALSE)
                 ELSE Outcome(Panic, None, TRUE)
        ELSE Outcome(Other(s), None, FALSE)

\* Variant of the Other arm that treats a failed scan as a split at s.len(),
\* leaving an empty Whitespace remainder pending.
OtherArm_UnwrapOrLen(s) ==
    LET i  == FindWhitespace(s)
        ab == split_at(s, IF i.found THEN i.idx ELSE ByteLen(s))
    IN  IF ab.ok THEN Outcome(Other(ab.a), Whitespace(ab.b), FALSE)
        ELSE Outcome(Panic, None, TRUE)

\* Token::Other(s) arm of next()
OtherArm(s) ==
    LET i == FindWhitespace(s)
    IN  IF i.found
        THEN LET ab == split_at(s, i.idx)
             IN  IF ab.ok THEN Outcome(Other(ab.a), Whitespace(ab.b), FALSE)
                 ELSE Outcome(Panic, None, TRUE)
        ELSE Outcome(Other(s), None, FALSE)

\* <SplitPreserveWS as Iterator>::next applied to self.string = p
NextOutcome(p) ==
    IF ~IsSome(p) THEN Outcome(None, None, FALSE)
    ELSE IF p.tag = "Whitespace" THEN WhitespaceArm(p.text)
    ELSE OtherArm(p.text)

\* The caller's closure S: FnMut(&str) -> String
Apply(g, s) ==
    CASE g = "identity" -> s
      [] g = "reverse"  -> Reverse(s)
      [] g = "space"    -> <<32>>

\* Variant of the map_words closure that yields nothing for Whitespace tokens.
MapWordsClosure_DropWhitespace(g, t) == IF t.tag = "Other" THEN Apply(g, t.text) ELSE <<>>

\* closure of map_words
MapWordsClosure(g, t) == IF t.tag = "Other" THEN Apply(g, t.text) ELSE t.text

\* Variant of the map_whitespace closure that yields nothing for Other tokens.
MapWhitespaceClosure_DropOther(g, t) == IF t.tag = "Other" THEN <<>> ELSE Apply(g, t.text)

\* closure of map_whitespace
MapWhitespaceClosure(g, t) == IF t.tag = "Other" THEN t.text ELSE Apply(g, t.text)

-----------------------------------------------------------------------------
(* State.                                                                  *)

VARIABLES
    input,     \* the &str handed to new()
    string,    \* self.string : Option<Token>
    emitted,   \* history: tokens returned by next() so far
    ret,       \* value returned by the latest next(), NoCall before any
    mode,      \* "iter", or the adaptor the scanner was moved into
    f,         \* the closure held by the adaptor
    base,      \* history: number of tokens emitted before the adaptor was built
    out,       \* history: Strings yielded by the adaptor so far
    panicked   \* a split_at panicked

vars == <<input, string, emitted, ret, mode, f, base, out, panicked>>

Init ==
    /\ input \in Strings
    /\ string = new(input)
    /\ emitted = <<>>
    /\ ret = NoCall
    /\ mode = "iter"
    /\ f = "identity"
    /\ base = 0
    /\ out = <<>>
    /\ panicked = FALSE

\* A direct call of next() on the scanner.
next ==
    /\ mode = "iter"
    /\ ~panicked
    /\ LET o == NextOutcome(string)
       IN  /\ string' = o.string
           /\ ret' = o.ret
           /\ panicked' = o.panicked
           /\ emitted' = IF IsSome(o.ret) THEN Append(emitted, o.ret) ELSE emitted
    /\ UNCHANGED <<input, mode, f, base, out>>

\* map_words(self, f): moves the scanner into a Map adaptor.
map_words(g) ==
    /\ mode = "iter"
    /\ ~panicked
    /\ mode' = "map_words"
    /\ f' = g
    /\ base' = Len(emitted)
    /\ UNCHANGED <<input, string, emitted, ret, out, panicked>>

\* map_whitespace(self, f): moves the scanner into a Map adaptor.
map_whitespace(g) ==
    /\ mode = "iter"
    /\ ~panicked
    /\ mode' = "map_whitespace"
    /\ f' = g
    /\ base' = Len(emitted)
    /\ UNCHANGED <<input, string, emitted, ret, out, panicked>>

\* next() of the adaptor returned by map_words.
map_words_next ==
    /\ mode = "map_words"
    /\ ~panicked
    /\ LET o == NextOutcome(string)
       IN  /\ string' = o.string
           /\ panicked' = o.panicked
           /\ emitted' = IF IsSome(o.ret) THEN Append(emitted, o.ret) ELSE emitted
           /\ ret' = IF IsSome(o.ret) THEN OwnedString(MapWordsClosure(f, o.ret)) ELSE None
           /\ out' = IF IsSome(o.ret) THEN Append(out, MapWordsClosure(f, o.ret)) ELSE out
    /\ UNCHANGED <<input, mode, f, base>>

\* next() of the adaptor returned by map_whitespace.
map_whitespace_next ==
    /\ mode = "map_whitespace"
    /\ ~panicked
    /\ LET o == NextOutcome(string)
       IN  /\ string' = o.string
           /\ panicked' = o.panicked
           /\ emitted' = IF IsSome(o.ret) THEN Append(emitted, o.ret) ELSE emitted
           /\ ret' = IF IsSome(o.ret) THEN OwnedString(MapWhitespaceClosure(f, o.ret)) ELSE None
           /\ out' = IF IsSome(o.ret) THEN Append(out, MapWhitespaceClosure(f, o.ret)) ELSE out
    /\ UNCHANGED <<input, mode, f, base>>

Next ==
    \/ next
    \/ \E g \in Transforms : map_words(g)
    \/ \E g \in Transforms : map_whitespace(g)
    \/ map_words_next
    \/ map_whitespace_next

Spec == Init /\ [][Next]_vars

-----------------------------------------------------------------------------
(* Properties.                                                             *)

\* Concatenation of the texts of a sequence of tokens.
RECURSIVE ConcatTexts(_)
ConcatTexts(toks) ==
    IF toks = <<>> THEN <<>> ELSE toks[1].text \o ConcatTexts(Tail(toks))

\* Concatenation of a sequence of Strings (Iterator::collect::<String>).
RECURSIVE Concat(_)
Concat(ss) == IF ss = <<>> THEN <<>> ELSE ss[1] \o Concat(Tail(ss))

\* Char offset in the input at which the i-th emitted token starts.
StartOf(i) == Len(ConcatTexts(SubSeq(emitted, 1, i - 1)))

HasMultiByte(s) == \E k \in 1..Len(s) : len_utf8(s[k]) > 1

\* C1 (round trip): once next() has returned None, the texts of the tokens
\* returned so far, concatenated in emission order, are exactly the input.
C1_RoundTrip == ret = None => ConcatTexts(emitted) = input

\* A direct traversal that ran to None over an input with a multi-byte char
\* and at least three tokens.
C1_Witness ==
    /\ mode = "iter"
    /\ ret = None
    /\ Len(emitted) >= 3
    /\ HasMultiByte(input)

\* C2 (alternation): no two consecutive emitted tokens have the same variant.
C2_Alternation ==
    \A i \in 1..(Len(emitted) - 1) : emitted[i].tag # emitted[i + 1].tag

\* Four tokens emitted, starting with whitespace.
C2_Witness ==
    /\ Len(emitted) = 4
    /\ emitted[1].tag = "Whitespace"
    /\ emitted[4].tag = "Other"

\* C3 (maximal single-class runs): every emitted token is the slice of the
\* input at its position, a Whitespace token holds only whitespace chars, an
\* Other token holds none, and the input char right after the token, if any,
\* is of the opposite class.
C3_MaximalRuns ==
    \A i \in 1..Len(emitted) :
        LET t     == emitted[i]
            start == StartOf(i)
            stop  == start + Len(t.text)
        IN  /\ stop <= Len(input)
            /\ t.text = SubSeq(input, start + 1, stop)
            /\ \A k \in 1..Len(t.text) : is_whitespace(t.text[k]) <=> (t.tag = "Whitespace")
            /\ stop < Len(input) => (is_whitespace(input[stop + 1]) <=> (t.tag = "Other"))

\* An Other token of two chars followed in the input by a 3-byte whitespace
\* char, and a Whitespace token followed by a 2-byte non-whitespace char.
C3_Witness ==
    /\ Len(emitted) >= 2
    /\ \E i \in 1..Len(emitted) :
           /\ emitted[i].tag = "Other"
           /\ Len(emitted[i].text) = 2
           /\ StartOf(i) + 2 < Len(input)
           /\ input[StartOf(i) + 3] = 12288
    /\ \E i \in 1..Len(emitted) :
           /\ emitted[i].tag = "Whitespace"
           /\ StartOf(i) + Len(emitted[i].text) < Len(input)
           /\ input[StartOf(i) + Len(emitted[i].text) + 1] = 233

\* C4 (emptiness): for the empty input the scanner is exhausted from the
\* start, next() never returns a token and nothing is ever produced.
C4_Emptiness ==
    input = <<>> =>
        /\ string = None
        /\ ret \in {NoCall, None}
        /\ emitted = <<>>
        /\ out = <<>>

\* next() has been called on the scanner of the empty input.
C4_Witness ==
    /\ input = <<>>
    /\ mode = "iter"
    /\ ret = None

\* C5 (class isolation): the adaptor yields one String per scanner token, in
\* order; map_words passes Whitespace texts through and applies f to Other
\* texts only, map_whitespace passes Other texts through and applies f to
\* Whitespace texts only.
C5_ClassIsolation ==
    /\ mode = "iter" => out = <<>>
    /\ mode # "iter" =>
        /\ Len(out) = Len(emitted) - base
        /\ \A i \in 1..Len(out) :
               LET t == emitted[base + i]
               IN  IF (mode = "map_words") <=> (t.tag = "Other")
                   THEN out[i] = Apply(f, t.text)
                   ELSE out[i] = t.text

\* map_whitespace with a transform that changes the whitespace run it is
\* given, after it yielded an Other and a changed Whitespace element.
C5_Witness ==
    /\ mode = "map_whitespace"
    /\ f = "reverse"
    /\ Len(out) >= 3
    /\ \E i \in 1..Len(out) :
           /\ emitted[base + i].tag = "Whitespace"
           /\ out[i] # emitted[base + i].text
    /\ \E i \in 1..Len(out) : emitted[base + i].tag = "Other"

\* C6 (identity pass-through): an adaptor built with the identity transform
\* on a fresh scanner and run to None yields Strings whose concatenation is
\* the input.
C6_IdentityPassThrough ==
    (mode # "iter" /\ f = "identity" /\ base = 0 /\ ret = None) =>
        Concat(out) = input

\* map_whitespace(identity) run to None over an input of at least three
\* tokens.
C6_Witness ==
    /\ mode = "map_whitespace"
    /\ f = "identity"
    /\ base = 0
    /\ ret = None
    /\ Len(out) >= 3
    /\ HasMultiByte(input)

\* C7 (pending state): a pending token, if present, wraps a non-empty string.
C7_PendingNonEmpty == IsSome(string) => string.text # <<>>

\* A pending remainder left by two splits.
C7_Witness ==
    /\ IsSome(string)
    /\ Len(emitted) = 2
    /\ Len(string.text) = 2

\* C8 (finiteness and terminal exhaustion): the tokens returned, plus one if
\* something is still pending, never exceed the number of chars of the input;
\* and once next() has returned None the pending state is None and every
\* later next() returns None.
C8_FiniteAndTerminal ==
    /\ [](Len(emitted) + (IF IsSome(string) THEN 1 ELSE 0) <= Len(input))
    /\ [](ret = None => string = None)
    /\ [][ret = None => (ret' = None /\ string' = None /\ emitted' = emitted)]_vars

\* As many tokens as chars were returned and next() returned None.
C8_Witness ==
    /\ Len(input) = MaxLen
    /\ Len(emitted) = Len(input)
    /\ ret = None

\* C9 (non-empty tokens): every returned token has a non-empty text, and the
\* variant of the pending token is the class of the first char of its text.
C9_NonEmptyTokens ==
    /\ \A i \in 1..Len(emitted) : emitted[i].text # <<>>
    /\ IsSome(ret) => ret.text # <<>>
    /\ (IsSome(string) /\ string.text # <<>>) =>
           (is_whitespace(string.text[1]) <=> (string.tag = "Whitespace"))

\* A token was just returned and a remainder starting with a multi-byte
\* whitespace char is pending.
C9_Witness ==
    /\ IsSome(ret)
    /\ IsSome(string)
    /\ string.text[1] = 12288
    /\ Len(emitted) >= 2

PendingText == IF IsSome(string) THEN string.text ELSE <<>>

\* C10 (conservation): in every state the texts of the tokens emitted so
\* far followed by the pending text are the input; and each next() moves a
\* prefix of the pending text to the output, keeping the rest pending.
C10_Conservation ==
    /\ [](ConcatTexts(emitted) \o PendingText = input)
    /\ [][emitted' # emitted =>
             /\ emitted' = Append(emitted, emitted'[Len(emitted')])
             /\ PendingText = emitted'[Len(emitted')].text \o PendingText']_vars

\* Two tokens emitted and a remainder pending, multi-byte chars on both sides.
C10_Witness ==
    /\ Len(emitted) = 2
    /\ IsSome(string)
    /\ HasMultiByte(ConcatTexts(emitted))
    /\ HasMultiByte(string.text)

=============================================================================
